---------------------------- MODULE Spec2Model ----------------------------
(***************************************************************************)
(* Model of pkg/eventbus (eventbus.go): an in-process publish/subscribe    *)
(* bus.  The bus owns a slice of Go channels guarded by one sync.Mutex.    *)
(* Callers (goroutines) run Subscribe, Publish, Unsubscribe and Close;     *)
(* each consumer receives from its own channel without taking the lock.    *)
(*                                                                         *)
(* A channel handle is the index of the channel in chans (the order in     *)
(* which make(chan any, capacity) ran).  Events are tagged with the        *)
(* sequence number of the Publish call that carries them, so that every    *)
(* published value is distinguishable.                                     *)
(***************************************************************************)
EXTENDS Integers, Sequences, FiniteSets

\* ----------------------------------------------------------------- bounds
NumThreads == 2      \* goroutines calling the bus
MaxCap     == 1      \* largest capacity passed to Subscribe
MaxCalls   == 3      \* Subscribe and Publish calls in one run
WideCap    == 2      \* largest capacity in the runs of TestPublish

Threads == 1..NumThreads
Caps    == 0..MaxCap

\* A channel the caller made itself: never returned by this bus.
Foreign == 0

VARIABLES
  subscribers,  \* eb.subscribers: sequence of channel handles
  mu,           \* eb.mu: 0 when free, else the goroutine holding it
  chans,        \* heap of channels made by Subscribe: [cap, buf, closed, recvq]
  pc,           \* per goroutine: "idle", "wait" (blocked in Lock), "body",
                \* "store" and "close" (mutex held), "unlock"
  op,           \* per goroutine: the method it is running
  arg,          \* per goroutine: capacity, event or channel handle passed
  idx,          \* per goroutine: position of its range loop
  rng,          \* per goroutine: the slice its range loop iterates
  nextEvent,    \* tag of the next Publish call
  panicked,     \* "none", or the runtime panic that ended the process
  cons,         \* per channel, its consumer: [recvd], the events received
  hist,         \* per channel, history: [due, mixed, unsub]
  snap,         \* history of the Publish in flight: [full, parked, helped]
  backing,      \* the array eb.subscribers points to, all cap slots of it
                \* (empty for the nil slice and for the empty slice New
                \* makes); recorded in the runs where a
                \* goroutine calls Subscribers()
  view          \* the slice a caller of Subscribers() holds: [ptr, len, own,
                \* arr], with history [on, at, mixed, racy, moved]

\* pkg/auth (token manager): see the token manager section.
VARIABLES
  tm,           \* the tokenManager: [token, until, count, writer, readers]
  tg            \* per goroutine, its call of the token manager:
                \* [pc, op, ret, err, cold, hit, gens]

busVars == <<subscribers, mu, chans, pc, op, arg, idx, rng, nextEvent,
             panicked, cons, hist, snap, backing, view>>

\* pkg/sigctx (signal context): see the signal context section.
VARIABLES
  sg,           \* the signalContext, its parent, the signal channel and the
                \* goroutine started by New
  se            \* per goroutine, its call of Err(): [pc, got]

tokVars == <<tm, tg>>

sigVars == <<sg, se>>

\* pkg/bqclient (StreamRead): see the StreamRead section.
VARIABLES
  sr,           \* one StreamRead call, its goroutine and its context:
                \* [pc, err, rows, ctx, panic]
  sc            \* its channels and their consumer: [dataChan, errChan, data,
                \* errs], with history [errSends, dataCloses, errCloses,
                \* late, blocked]

srVars == <<sr, sc>>

\* The state of the other packages, which no method of the bus, of the
\* token manager, of the signal context, of the BigQuery client touches.
outside    == <<tokVars, sigVars, srVars>>
tokOutside == <<busVars, sigVars, srVars>>
sigOutside == <<busVars, tokVars, srVars>>
srOutside  == <<busVars, tokVars, sigVars>>

vars == <<busVars, tokVars, sigVars, srVars>>

\* ---------------------------------------------------------- token manager
\* Minutes: GetToken refreshes a token with no more than RefreshBefore left,
\* Refresh sets the expiry TokenLife after the generation.
RefreshBefore == 5
TokenLife     == 55

\* Token generations in one run.
MaxTokens == 3

\* The amounts of time that pass between two steps.
TickSteps == {1, 49}

\* A goroutine that is not calling the token manager.
NoCall == [pc |-> "idle", op |-> "none", ret |-> 0, err |-> FALSE,
           cold |-> FALSE, hit |-> FALSE, gens |-> 0]

\* ---------------------------------------------------------------- helpers
Handles == 1..Len(chans)

Range(s) == {s[i] : i \in 1..Len(s)}

Min(a, b) == IF a < b THEN a ELSE b

Prefix(s, n) == SubSeq(s, 1, Min(n, Len(s)))

\* Variant: make(chan any), the capacity is ignored.
MakeChanUnbuffered(c) ==
  [cap |-> 0, buf |-> <<>>, closed |-> FALSE, recvq |-> FALSE]

\* make(chan any, capacity)
MakeChan(c) == [cap |-> c, buf |-> <<>>, closed |-> FALSE, recvq |-> FALSE]

\* len(ch) == cap(ch): the buffer has no free slot
Full(ch) == Len(ch.buf) >= ch.cap

\* The events channel h has carried to its consumer or still holds.
Stream(h) == cons[h].recvd \o chans[h].buf

Has(h, e) == e \in Range(Stream(h))

\* The consumer of h has started receiving.
Started(h) == cons[h].recvd # <<>> \/ chans[h].recvq

NoSnap == [full |-> {}, parked |-> {}, helped |-> {}]

\* A Publish holds the lock and has not finished its loop.
Publishing == \E t \in Threads : mu = t /\ op[t] = "Publish" /\ pc[t] = "body"

\* eb.Subscribers()
Subscribers == subscribers

\* ---------------------------------------------------- slices and arrays
\* A slot of an array that no append has written holds the nil channel; a
\* position read outside the array a slice points to holds anything.
NilChan == 0
Garbage == -1

\* No caller has loaded anything of eb.subscribers yet.  on: a goroutine
\* of this run calls Subscribers().
NoView == [ptr |-> FALSE, len |-> -1, own |-> FALSE, arr |-> <<>>, on |-> TRUE,
           at |-> <<>>, mixed |-> FALSE, racy |-> FALSE, moved |-> FALSE]

\* The array is recorded for the caller of Subscribers(); in a run without
\* one nothing reads it.
Recorded(a) == IF view.on THEN a ELSE <<>>

\* The capacity append gives the new array when the old one, of capacity
\* c, is full: 1, 2, 4, 8.
GrowCap(c) == IF c = 0 THEN 1 ELSE 2 * c

\* append(s, h) for the slice of length n on array a, before h is stored:
\* the array the result points to.  With room it is a itself, slot n + 1
\* still holding what it held; without room it is a new array holding the
\* n elements and nil slots.
Grown(a, n) ==
  IF n < Len(a)
  THEN a
  ELSE SubSeq(a, 1, n) \o [i \in 1..(GrowCap(Len(a)) - n) |-> NilChan]

\* append(s[:i], s[i+1:]...) writes its result s2 into the array a of s;
\* the slots behind the result keep what they held.
Overlay(s2, a) ==
  [i \in 1..Len(a) |-> IF i <= Len(s2) THEN s2[i] ELSE a[i]]

\* eb.subscribers is about to point to another array (or to none): a view
\* that points to the present array keeps it, with its present content.
Replaced(v) ==
  IF ~v.ptr THEN v
  ELSE IF v.own THEN [v EXCEPT !.moved = TRUE]
       ELSE [v EXCEPT !.own = TRUE, !.arr = backing, !.moved = TRUE]

\* History: eb.subscribers is assigned while a caller of Subscribers() has
\* loaded one word of it and not the other.
Written(v) == IF v.ptr # (v.len >= 0) THEN [v EXCEPT !.mixed = TRUE] ELSE v

\* A goroutine is inside the critical section of a method that assigns
\* eb.subscribers.
Mutating ==
  \E t \in Threads : mu = t /\ op[t] \in {"Subscribe", "Unsubscribe", "Close"}

\* History: a word of eb.subscribers is loaded during such a section.
Raced(v) == IF Mutating THEN [v EXCEPT !.racy = TRUE] ELSE v

\* Variant: Subscribers() returns a copy of the elements.
LoadPtrCopy(v) == [v EXCEPT !.ptr = TRUE, !.own = TRUE, !.arr = backing]

\* return eb.subscribers, the pointer word: the caller's slice points to
\* the array of the registry.
LoadPtr(v) == [v EXCEPT !.ptr = TRUE]

\* return eb.subscribers, the length word.  History: the registry then.
LoadLen(v) == [v EXCEPT !.len = Len(subscribers), !.at = subscribers]

\* Subscribers() has returned its slice.
Returned == view.ptr /\ view.len >= 0

\* What the caller reads in the slice it was given, position by position.
ViewList ==
  LET a == IF view.own THEN view.arr ELSE backing
  IN  [i \in 1..view.len |-> IF i <= Len(a) THEN a[i] ELSE Garbage]

\* ------------------------------------------------------------------- Init
\* &tokenManager{auth: auth, serviceID: serviceID}: no token, the zero
\* expiry, the RWMutex free; no goroutine is calling it.
TokInit ==
  /\ tm = [token |-> 0, until |-> 0, count |-> 0, writer |-> 0, readers |-> {}]
  /\ tg = [g \in Threads |-> NoCall]

\* Rows the read stream can deliver in a run, and the capacity of dataChan
\* (100 in the code, line 281) scaled to it.
MaxRows == 2
DataCap == 1

\* make(chan error, 1)
ErrCap == 1

\* tableProjects ... tableDREvents, lines 19-25, and validTables, lines 28-36
ValidTables == {"projects", "contracts", "der_metadata", "der_data",
                "project_averages", "utilities", "dr_events"}

\* Table names passed to StreamRead.
Tables == {"der_data", "der", ""}

\* Before the call of StreamRead: no channel is made yet, the context
\* passed is live.
SrInit ==
  /\ sr = [pc |-> "new", err |-> "nil", rows |-> 0, ctx |-> "live",
           panic |-> "none"]
  /\ sc = [dataChan |-> [buf |-> <<>>, closed |-> FALSE],
           errChan |-> [buf |-> <<>>, closed |-> FALSE],
           data |-> <<>>, errs |-> <<>>,
           errSends |-> 0, dataCloses |-> 0, errCloses |-> 0,
           late |-> FALSE, blocked |-> FALSE]

\* New(parent), lines 44-60: a live context without signal error, the
\* channel made and registered for SIGINT and SIGTERM, the goroutine waiting
\* on it; no goroutine is calling Err().
SigInit ==
  /\ sg = [done |-> FALSE, err |-> "nil", cause |-> "none", sigErr |-> "nil",
           sigChan |-> <<>>, notify |-> TRUE, hpc |-> 0, sig |-> "nil",
           mu |-> 0, last |-> "nil"]
  /\ se = [g \in Threads |-> [pc |-> "idle", got |-> "nil"]]

BusInit ==
  /\ TokInit
  /\ SigInit
  /\ SrInit
  /\ subscribers = <<>>
  /\ mu = 0
  /\ chans = <<>>
  /\ pc = [t \in Threads |-> "idle"]
  /\ op = [t \in Threads |-> "none"]
  /\ arg = [t \in Threads |-> 0]
  /\ idx = [t \in Threads |-> 0]
  /\ rng = [t \in Threads |-> <<>>]
  /\ nextEvent = 1
  /\ panicked = "none"
  /\ cons = <<>>
  /\ hist = <<>>
  /\ snap = NoSnap
  /\ backing = <<>>

\* New(), lines 18-22, in a run where no goroutine calls Subscribers().
Init == BusInit /\ view = [NoView EXCEPT !.on = FALSE]

\* New(), lines 18-22, in a run where a goroutine calls Subscribers().
ViewInit == BusInit /\ view = NoView


\* ------------------------------------------------------- channel runtime
\* Variant: the buffer is a stack, the newest event is received first.
TrySendFront(ch, e) ==
  IF ch.recvq THEN [ch |-> [ch EXCEPT !.recvq = FALSE], handed |-> <<e>>]
  ELSE IF Len(ch.buf) < ch.cap
       THEN [ch |-> [ch EXCEPT !.buf = <<e>> \o @], handed |-> <<>>]
       ELSE [ch |-> ch, handed |-> <<>>]

\* Variant: a full queue accepts the event by dropping its oldest one.
TrySendLatest(ch, e) ==
  IF ch.recvq THEN [ch |-> [ch EXCEPT !.recvq = FALSE], handed |-> <<e>>]
  ELSE IF Len(ch.buf) < ch.cap
       THEN [ch |-> [ch EXCEPT !.buf = Append(@, e)], handed |-> <<>>]
       ELSE IF ch.cap > 0
            THEN [ch |-> [ch EXCEPT !.buf = Append(Tail(@), e)], handed |-> <<>>]
            ELSE [ch |-> ch, handed |-> <<>>]

\* Variant: the queue takes one event more than its capacity.
TrySendExtra(ch, e) ==
  IF ch.recvq THEN [ch |-> [ch EXCEPT !.recvq = FALSE], handed |-> <<e>>]
  ELSE IF Len(ch.buf) <= ch.cap
       THEN [ch |-> [ch EXCEPT !.buf = Append(@, e)], handed |-> <<>>]
       ELSE [ch |-> ch, handed |-> <<>>]

\* select { case ch <- event: default: } on an open channel: the event goes
\* to a parked receiver, else into a free buffer slot, else it is dropped.
\* The result is the channel afterwards and the event handed over directly.
TrySend(ch, e) ==
  IF ch.recvq THEN [ch |-> [ch EXCEPT !.recvq = FALSE], handed |-> <<e>>]
  ELSE IF Len(ch.buf) < ch.cap
       THEN [ch |-> [ch EXCEPT !.buf = Append(@, e)], handed |-> <<>>]
       ELSE [ch |-> ch, handed |-> <<>>]

\* close(ch) on an open channel: a parked receiver is released.
CloseChan(ch) == [ch EXCEPT !.closed = TRUE, !.recvq = FALSE]

\* Variant: the comparison sub == ch never matches.
IndexOfNone(s, ch) == 0

\* for i, sub := range eb.subscribers { if sub == ch {...; break} }:
\* the first index holding ch, 0 when there is none.
IndexOf(s, ch) ==
  IF \E i \in 1..Len(s) : s[i] = ch
  THEN CHOOSE i \in 1..Len(s) : s[i] = ch /\ \A j \in 1..(i - 1) : s[j] # ch
  ELSE 0

\* Variant: the slice is cut at the handle, eb.subscribers[:i].
RemoveCut(s, i) == SubSeq(s, 1, i - 1)

\* Variant: the tail is copied down but the slice keeps its length.
RemoveNoShrink(s, i) ==
  SubSeq(s, 1, i - 1) \o SubSeq(s, i + 1, Len(s)) \o <<s[Len(s)]>>

\* Variant: the last element is moved into the hole and the slice is cut.
RemoveSwapLast(s, i) ==
  SubSeq([s EXCEPT ![i] = s[Len(s)]], 1, Len(s) - 1)

\* append(s[:i], s[i+1:]...), with i counted from 1
Remove(s, i) == SubSeq(s, 1, i - 1) \o SubSeq(s, i + 1, Len(s))

\* Variant: close(ch) runs after the loop, whether or not ch was found.
UnsubscribedCloseAlways(s, cs, ch) ==
  LET i  == IndexOf(s, ch)
      s2 == IF i = 0 THEN s ELSE Remove(s, i)
  IN  IF ch \notin DOMAIN cs
      THEN [subs |-> s2, chans |-> cs, panic |-> "none"]
      ELSE IF cs[ch].closed
           THEN [subs |-> s2, chans |-> cs, panic |-> "close of closed channel"]
           ELSE [subs |-> s2, chans |-> [cs EXCEPT ![ch] = CloseChan(@)],
                 panic |-> "none"]

\* Variant: the handle is removed from the registry but never closed.
UnsubscribedNoClose(s, cs, ch) ==
  LET i == IndexOf(s, ch)
  IN  [subs |-> IF i = 0 THEN s ELSE Remove(s, i), chans |-> cs, panic |-> "none"]

\* The body of Unsubscribe, lines 49-55, on registry s and channels cs: the
\* registry and the channels afterwards, and the panic raised if close(ch)
\* meets a closed channel.
Unsubscribed(s, cs, ch) ==
  LET i == IndexOf(s, ch)
  IN  IF i = 0
      THEN [subs |-> s, chans |-> cs, panic |-> "none"]
      ELSE IF cs[ch].closed
           THEN [subs |-> Remove(s, i), chans |-> cs,
                 panic |-> "close of closed channel"]
           ELSE [subs |-> Remove(s, i),
                 chans |-> [cs EXCEPT ![ch] = CloseChan(@)],
                 panic |-> "none"]

\* Variant: Close leaves the registry as it is.
KeptSlice == subscribers

\* eb.subscribers = nil
NilSlice == <<>>

\* Variant: Lock does not wait.
MuAlways == TRUE

\* eb.mu.Lock() returns only when no goroutine holds the mutex.
MuFree == mu = 0

\* ------------------------------------------------------- lock and unlock
Running == panicked = "none"

\* eb.mu.Lock(): goroutine t, about to run a method (or blocked in its
\* Lock), takes the mutex.  The range loops of Publish, Unsubscribe and
\* Close read eb.subscribers once, when they start.
Lock(t, o, a) ==
  /\ UNCHANGED outside
  /\ UNCHANGED <<backing, view>>
  /\ Running /\ pc[t] \in {"idle", "wait"}
  /\ MuFree
  /\ mu' = t
  /\ pc' = [pc EXCEPT ![t] = "body"]
  /\ op' = [op EXCEPT ![t] = o]
  /\ arg' = [arg EXCEPT ![t] = a]
  /\ idx' = [idx EXCEPT ![t] = 1]
  /\ rng' = [rng EXCEPT ![t] = subscribers]

\* defer eb.mu.Unlock() and return.  History: a returning Unsubscribe of a
\* handle that was registered is noted, a returning Publish is forgotten.
Unlock(t) ==
  /\ UNCHANGED outside
  /\ UNCHANGED <<backing, view>>
  /\ Running /\ pc[t] = "unlock"
  /\ mu' = 0
  /\ pc' = [pc EXCEPT ![t] = "idle"]
  /\ op' = [op EXCEPT ![t] = "none"]
  /\ arg' = [arg EXCEPT ![t] = 0]
  /\ idx' = [idx EXCEPT ![t] = 0]
  /\ rng' = [rng EXCEPT ![t] = <<>>]
  /\ hist' = IF op[t] = "Unsubscribe" /\ arg[t] \in Range(rng[t]) /\ arg[t] \in Handles
             THEN [hist EXCEPT ![arg[t]].unsub = TRUE]
             ELSE hist
  /\ snap' = IF op[t] = "Publish" THEN NoSnap ELSE snap
  /\ UNCHANGED <<subscribers, chans, nextEvent, panicked, cons>>

\* ------------------------------------------------------------------ calls
\* Subscribe and Publish calls still allowed in a run of arbitrary callers.
Budget == MaxCalls - Len(chans) - (nextEvent - 1)
       - Cardinality({u \in Threads : op[u] = "Subscribe" /\ pc[u] = "body"})

SubscribeCall(t, c) ==
  /\ Lock(t, "Subscribe", c)
  /\ UNCHANGED <<subscribers, chans, nextEvent, panicked, cons, hist, snap>>

\* History: the Publish notes which registered queues are full and which
\* have a receiver parked (helped collects the queues whose consumer runs a
\* receive during the fan-out), and its event becomes due on every
\* registered queue; a queue whose consumer has started receiving is marked
\* mixed and its due events are no longer recorded.
PublishCall(t) ==
  /\ Lock(t, "Publish", nextEvent)
  /\ nextEvent' = nextEvent + 1
  /\ snap' = [full   |-> {h \in Range(subscribers) : Full(chans[h])},
              parked |-> {h \in Range(subscribers) : chans[h].recvq},
              helped |-> {}]
  /\ hist' = [h \in Handles |->
                IF h \in Range(subscribers)
                THEN IF hist[h].mixed \/ Started(h)
                     THEN [hist[h] EXCEPT !.due = <<>>, !.mixed = TRUE]
                     ELSE [hist[h] EXCEPT !.due = Append(@, nextEvent)]
                ELSE hist[h]]
  /\ UNCHANGED <<subscribers, chans, panicked, cons>>

UnsubscribeCall(t, h) ==
  /\ Lock(t, "Unsubscribe", h)
  /\ UNCHANGED <<subscribers, chans, nextEvent, panicked, cons, hist, snap>>

CloseCall(t) ==
  /\ Lock(t, "Close", 0)
  /\ UNCHANGED <<subscribers, chans, nextEvent, panicked, cons, hist, snap>>

\* ----------------------------------------------------------------- bodies
\* Subscribe, lines 28-30.  The statement of line 29 stores the slice
\* (capacity, pointer, length) in eb.subscribers and then the channel in
\* its slot of the array; only a caller of Subscribers(), which takes no
\* lock, can see the slice without the channel, so the two stores are two
\* steps in the runs that have such a caller and one step in the others.
SubscribeBody(t) ==
  /\ UNCHANGED outside
  /\ Running /\ pc[t] = "body" /\ op[t] = "Subscribe"
  /\ chans' = Append(chans, MakeChan(arg[t]))
  /\ subscribers' = Append(subscribers, Len(chans) + 1)
  /\ cons' = Append(cons, [recvd |-> <<>>])
  /\ hist' = Append(hist, [due |-> <<>>, mixed |-> FALSE, unsub |-> FALSE])
  /\ backing' = Recorded(Grown(backing, Len(subscribers)))
  /\ view' = Written(IF Len(subscribers) < Len(backing)
                     THEN view ELSE Replaced(view))
  /\ pc' = [pc EXCEPT ![t] = IF view.on THEN "store" ELSE "unlock"]
  /\ UNCHANGED <<mu, op, arg, idx, rng, nextEvent, panicked, snap>>

\* Subscribe, line 29, the second store: the channel goes into the last
\* slot of the slice.
SubscribeStore(t) ==
  /\ UNCHANGED outside
  /\ Running /\ pc[t] = "store" /\ op[t] = "Subscribe"
  /\ backing' = [backing EXCEPT ![Len(subscribers)] = subscribers[Len(subscribers)]]
  /\ pc' = [pc EXCEPT ![t] = "unlock"]
  /\ UNCHANGED <<subscribers, mu, chans, op, arg, idx, rng, nextEvent,
                 panicked, cons, hist, snap, view>>

\* Variant: the send has no default case, so it waits until the subscriber
\* has room or a receiver.
PublishStepBlocking(t) ==
  /\ UNCHANGED outside
  /\ UNCHANGED <<backing, view>>
  /\ Running /\ pc[t] = "body" /\ op[t] = "Publish"
  /\ IF idx[t] <= Len(rng[t])
     THEN LET h == rng[t][idx[t]]
              r == TrySend(chans[h], arg[t])
          IN  IF chans[h].closed
              THEN /\ panicked' = "send on closed channel"
                   /\ UNCHANGED <<chans, cons, idx, pc>>
              ELSE /\ chans[h].recvq \/ ~Full(chans[h])
                   /\ chans' = [chans EXCEPT ![h] = r.ch]
                   /\ cons' = [cons EXCEPT ![h].recvd = @ \o r.handed]
                   /\ idx' = [idx EXCEPT ![t] = @ + 1]
                   /\ UNCHANGED <<panicked, pc>>
     ELSE /\ pc' = [pc EXCEPT ![t] = "unlock"]
          /\ UNCHANGED <<chans, cons, idx, panicked>>
  /\ UNCHANGED <<subscribers, mu, op, arg, rng, nextEvent, hist, snap>>

\* Variant: the loop is left after the first delivery.
PublishStepBreak(t) ==
  /\ UNCHANGED outside
  /\ UNCHANGED <<backing, view>>
  /\ Running /\ pc[t] = "body" /\ op[t] = "Publish"
  /\ IF idx[t] <= Len(rng[t])
     THEN LET h == rng[t][idx[t]]
              r == TrySend(chans[h], arg[t])
          IN  IF chans[h].closed
              THEN /\ panicked' = "send on closed channel"
                   /\ UNCHANGED <<chans, cons, idx, pc>>
              ELSE /\ chans' = [chans EXCEPT ![h] = r.ch]
                   /\ cons' = [cons EXCEPT ![h].recvd = @ \o r.handed]
                   /\ idx' = [idx EXCEPT ![t] = @ + 1]
                   /\ pc' = [pc EXCEPT ![t] = IF r.ch # chans[h] THEN "unlock" ELSE "body"]
                   /\ UNCHANGED panicked
     ELSE /\ pc' = [pc EXCEPT ![t] = "unlock"]
          /\ UNCHANGED <<chans, cons, idx, panicked>>
  /\ UNCHANGED <<subscribers, mu, op, arg, rng, nextEvent, hist, snap>>

\* Publish, lines 37-42: one iteration of the loop, or its exit.
PublishStep(t) ==
  /\ UNCHANGED outside
  /\ UNCHANGED <<backing, view>>
  /\ Running /\ pc[t] = "body" /\ op[t] = "Publish"
  /\ IF idx[t] <= Len(rng[t])
     THEN LET h == rng[t][idx[t]]
              r == TrySend(chans[h], arg[t])
          IN  IF chans[h].closed
              THEN /\ panicked' = "send on closed channel"
                   /\ UNCHANGED <<chans, cons, idx, pc>>
              ELSE /\ chans' = [chans EXCEPT ![h] = r.ch]
                   /\ cons' = [cons EXCEPT ![h].recvd = @ \o r.handed]
                   /\ idx' = [idx EXCEPT ![t] = @ + 1]
                   /\ UNCHANGED <<panicked, pc>>
     ELSE /\ pc' = [pc EXCEPT ![t] = "unlock"]
          /\ UNCHANGED <<chans, cons, idx, panicked>>
  /\ UNCHANGED <<subscribers, mu, op, arg, rng, nextEvent, hist, snap>>

\* The elements append(s[:i], s[i+1:]...) has still to copy down, one slot
\* each, when Unsubscribe of goroutine t has found its channel at i and
\* copied idx[t] - 1 of them.
ToMove(t) ==
  LET i == IndexOf(subscribers, arg[t])
  IN  IF i = 0 THEN 0 ELSE Len(subscribers) - i - (idx[t] - 1)

\* Unsubscribe, line 51, the copy inside the array: the next element moves
\* down one slot.  Only a caller of Subscribers() can see the array half
\* copied; the copy is recorded in the runs that have such a caller.
UnsubscribeMove(t) ==
  /\ UNCHANGED outside
  /\ Running /\ pc[t] = "body" /\ op[t] = "Unsubscribe"
  /\ view.on /\ ToMove(t) > 0
  /\ LET j == IndexOf(subscribers, arg[t]) + idx[t] - 1
     IN  backing' = [backing EXCEPT ![j] = backing[j + 1]]
  /\ idx' = [idx EXCEPT ![t] = @ + 1]
  /\ UNCHANGED <<subscribers, mu, chans, pc, op, arg, rng, nextEvent,
                 panicked, cons, hist, snap, view>>

\* Unsubscribe, lines 49-51: the loop looks for ch and, when it finds it,
\* stores the slice without it in eb.subscribers; close(ch) comes next.
UnsubscribeBody(t) ==
  /\ UNCHANGED outside
  /\ Running /\ pc[t] = "body" /\ op[t] = "Unsubscribe"
  /\ view.on => ToMove(t) = 0
  /\ LET r == Unsubscribed(subscribers, chans, arg[t])
     IN  /\ subscribers' = r.subs
         /\ backing' = Recorded(Overlay(r.subs, backing))
         /\ view' = IF r.subs # subscribers THEN Written(view) ELSE view
         /\ pc' = [pc EXCEPT ![t] = IF r.chans # chans \/ r.panic # "none"
                                    THEN "close" ELSE "unlock"]
  /\ UNCHANGED <<mu, chans, op, arg, idx, rng, nextEvent, panicked, cons,
                 hist, snap>>

\* Unsubscribe, lines 52-53: close(ch) for the channel found in the slice
\* the loop ranged over, and break.
UnsubscribeClose(t) ==
  /\ UNCHANGED outside
  /\ UNCHANGED <<backing, view>>
  /\ Running /\ pc[t] = "close" /\ op[t] = "Unsubscribe"
  /\ LET r == Unsubscribed(rng[t], chans, arg[t])
     IN  /\ chans' = r.chans
         /\ panicked' = r.panic
         /\ pc' = [pc EXCEPT ![t] = IF r.panic = "none" THEN "unlock" ELSE "close"]
  /\ UNCHANGED <<subscribers, mu, op, arg, idx, rng, nextEvent, cons, hist,
                 snap>>

\* Variant: the loop stops one subscriber short.
CloseStepShort(t) ==
  /\ UNCHANGED outside
  /\ Running /\ pc[t] = "body" /\ op[t] = "Close"
  /\ IF idx[t] < Len(rng[t])
     THEN LET h == rng[t][idx[t]]
          IN  IF chans[h].closed
              THEN /\ panicked' = "close of closed channel"
                   /\ UNCHANGED <<chans, cons, idx, pc, subscribers>>
                   /\ UNCHANGED <<backing, view>>
              ELSE /\ chans' = [chans EXCEPT ![h] = CloseChan(@)]
                   /\ idx' = [idx EXCEPT ![t] = @ + 1]
                   /\ UNCHANGED <<cons, panicked, pc, subscribers>>
                   /\ UNCHANGED <<backing, view>>
     ELSE /\ subscribers' = NilSlice
          /\ backing' = <<>>
          /\ view' = IF backing = <<>> THEN view ELSE Written(Replaced(view))
          /\ pc' = [pc EXCEPT ![t] = "unlock"]
          /\ UNCHANGED <<chans, cons, idx, panicked>>
  /\ UNCHANGED <<mu, op, arg, rng, nextEvent, hist, snap>>

\* Close, lines 66-69: one iteration of the loop, or the assignment of nil.
CloseStep(t) ==
  /\ UNCHANGED outside
  /\ Running /\ pc[t] = "body" /\ op[t] = "Close"
  /\ IF idx[t] <= Len(rng[t])
     THEN LET h == rng[t][idx[t]]
          IN  IF chans[h].closed
              THEN /\ panicked' = "close of closed channel"
                   /\ UNCHANGED <<chans, cons, idx, pc, subscribers>>
                   /\ UNCHANGED <<backing, view>>
              ELSE /\ chans' = [chans EXCEPT ![h] = CloseChan(@)]
                   /\ idx' = [idx EXCEPT ![t] = @ + 1]
                   /\ UNCHANGED <<cons, panicked, pc, subscribers>>
                   /\ UNCHANGED <<backing, view>>
     ELSE /\ subscribers' = NilSlice
          /\ backing' = <<>>
          /\ view' = IF backing = <<>> THEN view ELSE Written(Replaced(view))
          /\ pc' = [pc EXCEPT ![t] = "unlock"]
          /\ UNCHANGED <<chans, cons, idx, panicked>>
  /\ UNCHANGED <<mu, op, arg, rng, nextEvent, hist, snap>>

\* --------------------------------------------------------------- consumer
\* What <-ch does now: "event" (the oldest buffered event is taken), "eos"
\* (closed and drained: the zero value with ok = false), or "park" (the
\* receiver waits for a send or a close).
RecvResult(ch) ==
  IF ch.buf # <<>> THEN "event" ELSE IF ch.closed THEN "eos" ELSE "park"

\* The consumer of channel h runs <-ch.  A parked consumer is released by
\* the send that hands it an event or by the close.
Recv(h) ==
  /\ UNCHANGED outside
  /\ UNCHANGED <<backing, view>>
  /\ Running
  /\ ~chans[h].recvq
  /\ IF RecvResult(chans[h]) = "event"
     THEN /\ cons' = [cons EXCEPT ![h].recvd = Append(@, Head(chans[h].buf))]
          /\ chans' = [chans EXCEPT ![h].buf = Tail(@)]
     ELSE IF RecvResult(chans[h]) = "eos"
          THEN UNCHANGED <<chans, cons>>
          ELSE /\ chans' = [chans EXCEPT ![h].recvq = TRUE]
               /\ UNCHANGED cons
  /\ hist' = IF Publishing
             THEN [hist EXCEPT ![h].due = <<>>, ![h].mixed = TRUE]
             ELSE hist
  /\ snap' = IF Publishing THEN [snap EXCEPT !.helped = @ \cup {h}] ELSE snap
  /\ UNCHANGED <<subscribers, mu, pc, op, arg, idx, rng, nextEvent, panicked>>

\* ------------------------------------------------------------------- Next
Next ==
  \/ \E t \in Threads, c \in Caps : Budget > 0 /\ SubscribeCall(t, c)
  \/ \E t \in Threads : Budget > 0 /\ PublishCall(t)
  \/ \E t \in Threads, h \in Handles \cup {Foreign} : UnsubscribeCall(t, h)
  \/ \E t \in Threads : CloseCall(t)
  \/ \E t \in Threads : SubscribeBody(t)
  \/ \E t \in Threads : PublishStep(t)
  \/ \E t \in Threads : UnsubscribeBody(t)
  \/ \E t \in Threads : UnsubscribeClose(t)
  \/ \E t \in Threads : CloseStep(t)
  \/ \E t \in Threads : Unlock(t)
  \/ \E h \in Handles : Recv(h)

Spec == Init /\ [][Next]_vars

\* --------------------------------------------------------- Subscribers()
\* Variant: Subscribers() holds the mutex while it loads.
ReadLocked == MuFree

\* Subscribers(), lines 58-60, takes no lock.
Unlocked == TRUE

\* One goroutine calls Subscribers() once, lines 58-60.  The slice header
\* is loaded word by word, in an order the build chooses, and nothing
\* orders the loads with the assignments of eb.subscribers in Subscribe,
\* Unsubscribe and Close; the call has returned when both are loaded.
SubscribersLoad(w) ==
  /\ UNCHANGED outside
  /\ Running /\ Unlocked /\ view.on
  /\ \/ /\ w = "ptr" /\ ~view.ptr
        /\ view' = Raced(LoadPtr(view))
     \/ /\ w = "len" /\ view.len < 0
        /\ view' = Raced(LoadLen(view))
  /\ UNCHANGED <<subscribers, mu, chans, pc, op, arg, idx, rng, nextEvent,
                 panicked, cons, hist, snap, backing>>

\* The callers of the methods that assign eb.subscribers, and the caller
\* of Subscribers().  Publish and the consumers read the registry under
\* the lock or not at all, and write neither the slice nor its array; the
\* capacity of a channel plays no part in the registry.
ViewNext ==
  \/ \E t \in Threads : Budget > 0 /\ SubscribeCall(t, MaxCap)
  \/ \E t \in Threads, h \in Handles \cup {Foreign} : UnsubscribeCall(t, h)
  \/ \E t \in Threads : CloseCall(t)
  \/ \E t \in Threads : SubscribeBody(t)
  \/ \E t \in Threads : SubscribeStore(t)
  \/ \E t \in Threads : UnsubscribeMove(t)
  \/ \E t \in Threads : UnsubscribeBody(t)
  \/ \E t \in Threads : UnsubscribeClose(t)
  \/ \E t \in Threads : CloseStep(t)
  \/ \E t \in Threads : Unlock(t)
  \/ \E w \in {"ptr", "len"} : SubscribersLoad(w)

ViewSpec == ViewInit /\ [][ViewNext]_vars

\* ------------------------------------------------------------- scheduling
\* A goroutine calls a method while another goroutine holds the mutex: it
\* blocks in eb.mu.Lock().  Nothing of the method has run yet; the call
\* actions above continue it when the mutex is granted.
Wait(t) ==
  /\ UNCHANGED outside
  /\ UNCHANGED <<backing, view>>
  /\ Running /\ pc[t] = "idle"
  /\ ~MuFree
  /\ pc' = [pc EXCEPT ![t] = "wait"]
  /\ UNCHANGED <<subscribers, mu, chans, op, arg, idx, rng, nextEvent,
                 panicked, cons, hist, snap>>

\* The mutex is granted to the blocked goroutine t.
Acquire(t) ==
  /\ pc[t] = "wait"
  /\ \/ \E c \in Caps : Budget > 0 /\ SubscribeCall(t, c)
     \/ Budget > 0 /\ PublishCall(t)
     \/ \E h \in Handles \cup {Foreign} : UnsubscribeCall(t, h)
     \/ CloseCall(t)

\* Goroutine t, holding the mutex, runs on: the method body, then the
\* deferred Unlock.
Step(t) ==
  \/ SubscribeBody(t)
  \/ PublishStep(t)
  \/ UnsubscribeBody(t)
  \/ UnsubscribeClose(t)
  \/ CloseStep(t)
  \/ Unlock(t)

\* A consumer that keeps receiving: its receive loop is scheduled again and
\* again.  Nothing is assumed about the callers of the bus.
ConsumerSpec ==
  /\ Init /\ [][Next]_vars
  /\ \A h \in 1..MaxCalls : WF_vars(h \in Handles /\ Recv(h))

LiveNext ==
  \/ Next
  \/ \E t \in Threads : Wait(t)

\* The Go scheduler runs every runnable goroutine, and sync.Mutex hands the
\* lock to a goroutine that keeps waiting for it.  Nothing is assumed about
\* consumers: they may never receive.
LiveSpec ==
  /\ Init /\ [][LiveNext]_vars
  /\ \A t \in Threads : WF_vars(Step(t)) /\ SF_vars(Acquire(t))

\* ---------------------------------------------------------------- scenario
\* No call of the bus is under way.
AllIdle == \A t \in Threads : pc[t] = "idle"

\* The next call of the walk-through, made when the previous one has
\* returned: Subscribe(2) twice, Publish three times ("a", "b", "c" are the
\* events 1, 2, 3), Unsubscribe of the first handle, Close.
ScenarioCall(t) ==
  /\ AllIdle
  /\ \/ Len(chans) < 2 /\ SubscribeCall(t, 2)
     \/ Len(chans) = 2 /\ nextEvent <= 3 /\ PublishCall(t)
     \/ nextEvent = 4 /\ 1 \in Range(subscribers) /\ UnsubscribeCall(t, 1)
     \/ nextEvent = 4 /\ chans[1].closed /\ subscribers # <<>> /\ CloseCall(t)

\* The consumers receive only after the third Publish has returned.
ScenarioRecv(h) ==
  /\ nextEvent = 4 /\ ~Publishing
  /\ Recv(h)

ScenarioNext ==
  \/ \E t \in Threads : ScenarioCall(t)
  \/ \E t \in Threads : Step(t)
  \/ \E h \in Handles : ScenarioRecv(h)

ScenarioSpec == Init /\ [][ScenarioNext]_vars

\* ------------------------------------------------------- wide capacities
\* Publish calls still allowed in a run with capacities up to WideCap: one
\* more than the widest queue holds.
WidePublishes == WideCap + 1 - (nextEvent - 1)

\* The callers of TestPublish and the consumer of its channel, in any
\* interleaving: one Subscribe on the new bus, with a capacity up to
\* WideCap, then Publish calls, receives at any moment, Close.
WideNext ==
  \/ \E t \in Threads, c \in 0..WideCap : chans = <<>> /\ SubscribeCall(t, c)
  \/ \E t \in Threads : chans # <<>> /\ WidePublishes > 0 /\ PublishCall(t)
  \/ \E t \in Threads : chans # <<>> /\ CloseCall(t)
  \/ \E t \in Threads : SubscribeBody(t)
  \/ \E t \in Threads : PublishStep(t)
  \/ \E t \in Threads : CloseStep(t)
  \/ \E t \in Threads : Unlock(t)
  \/ \E h \in Handles : Recv(h)

WideSpec == Init /\ [][WideNext]_vars

\* ---------------------------------------------------------- token manager
\* A token is the number of the generation that made it; 0 is the empty
\* string.  tm.until is time.Until(tm.expiresAt) at the present moment, cut
\* off at 0 (the code only compares it with RefreshBefore).
\*
\* Variant: a token with exactly RefreshBefore left still counts as fresh.
FreshAtLeast == tm.token # 0 /\ tm.until >= RefreshBefore

\* tm.token != "" && time.Until(tm.expiresAt) > 5*time.Minute
Fresh == tm.token # 0 /\ tm.until > RefreshBefore

\* Calls still allowed: every call under way may generate one token.
TokBudget ==
  MaxTokens - tm.count
    - Cardinality({g \in Threads : tg[g].pc \in {"rlocked", "refresh", "locked"}})

\* A call of Refresh has failed and its caller holds the result.
Failed(g) == tg[g].pc = "done" /\ tg[g].err

\* GetToken, line 55: tm.mu.RLock() succeeds when no writer holds the lock.
GetTokenCall(g) ==
  /\ tg[g].pc = "idle" /\ TokBudget > 0
  /\ tm.writer = 0
  /\ tm' = [tm EXCEPT !.readers = @ \cup {g}]
  /\ tg' = [tg EXCEPT ![g] = [NoCall EXCEPT !.pc = "rlocked", !.op = "GetToken",
                                            !.cold = (tm.token = 0)]]
  /\ UNCHANGED tokOutside

\* GetToken, lines 56-63: the check under the read lock, then RUnlock and
\* either the return of the cached token or the call of Refresh.
GetTokenCheck(g) ==
  /\ tg[g].pc = "rlocked"
  /\ tm' = [tm EXCEPT !.readers = @ \ {g}]
  /\ tg' = IF Fresh
           THEN [tg EXCEPT ![g].pc = "done", ![g].ret = tm.token, ![g].hit = TRUE]
           ELSE [tg EXCEPT ![g].pc = "refresh"]
  /\ UNCHANGED tokOutside

\* A direct call of Refresh.
RefreshCall(g) ==
  /\ tg[g].pc = "idle" /\ TokBudget > 0
  /\ tg' = [tg EXCEPT ![g] = [NoCall EXCEPT !.pc = "refresh", !.op = "Refresh",
                                            !.cold = (tm.token = 0)]]
  /\ UNCHANGED <<tm, tokOutside>>

\* Refresh, line 67: tm.mu.Lock() succeeds when the lock has no holder.
RefreshLock(g) ==
  /\ tg[g].pc = "refresh"
  /\ tm.writer = 0 /\ tm.readers = {}
  /\ tm' = [tm EXCEPT !.writer = g]
  /\ tg' = [tg EXCEPT ![g].pc = "locked"]
  /\ UNCHANGED tokOutside

\* Variant: a failed generation clears the cached token.
CustomTokenClearing(g, ok) ==
  /\ tg[g].pc = "locked"
  /\ IF ok
     THEN /\ tm' = [tm EXCEPT !.token = tm.count + 1, !.count = @ + 1,
                              !.until = TokenLife]
          /\ tg' = [tg EXCEPT ![g].pc = "unlock", ![g].ret = tm.count + 1,
                              ![g].gens = @ + 1]
     ELSE /\ tg' = [tg EXCEPT ![g].pc = "unlock", ![g].ret = 0, ![g].err = TRUE]
          /\ tm' = [tm EXCEPT !.token = 0, !.until = 0]
  /\ UNCHANGED tokOutside

\* Refresh, lines 70-78: tm.auth.CustomToken either fails, and Refresh
\* returns "" and the error, or gives a new token, which is stored with its
\* expiry and returned.
CustomToken(g, ok) ==
  /\ tg[g].pc = "locked"
  /\ IF ok
     THEN /\ tm' = [tm EXCEPT !.token = tm.count + 1, !.count = @ + 1,
                              !.until = TokenLife]
          /\ tg' = [tg EXCEPT ![g].pc = "unlock", ![g].ret = tm.count + 1,
                              ![g].gens = @ + 1]
     ELSE /\ tg' = [tg EXCEPT ![g].pc = "unlock", ![g].ret = 0, ![g].err = TRUE]
          /\ UNCHANGED tm
  /\ UNCHANGED tokOutside

\* Refresh, line 68: the deferred tm.mu.Unlock(), and the return.
RefreshUnlock(g) ==
  /\ tg[g].pc = "unlock"
  /\ tm' = [tm EXCEPT !.writer = 0]
  /\ tg' = [tg EXCEPT ![g].pc = "done"]
  /\ UNCHANGED tokOutside

\* The caller has its result and may call again.
TokReturn(g) ==
  /\ tg[g].pc = "done"
  /\ tg' = [tg EXCEPT ![g] = NoCall]
  /\ UNCHANGED <<tm, tokOutside>>

\* d minutes pass.
Tick(d) ==
  /\ tm.until > 0
  /\ tm' = [tm EXCEPT !.until = IF @ > d THEN @ - d ELSE 0]
  /\ UNCHANGED <<tg, tokOutside>>

TokNext ==
  \/ \E g \in Threads : GetTokenCall(g)
  \/ \E g \in Threads : GetTokenCheck(g)
  \/ \E g \in Threads : RefreshCall(g)
  \/ \E g \in Threads : RefreshLock(g)
  \/ \E g \in Threads, ok \in BOOLEAN : CustomToken(g, ok)
  \/ \E g \in Threads : RefreshUnlock(g)
  \/ \E g \in Threads : TokReturn(g)
  \/ \E d \in TickSteps : Tick(d)

TokenSpec == Init /\ [][TokNext]_vars

\* --------------------------------------------------------- signal context
\* An error is "nil", "canceled" (context.Canceled), "deadline"
\* (context.DeadlineExceeded, from the parent), or the name of a signal,
\* which stands for the *SignalError carrying that signal.
Signals == {"SIGINT", "SIGTERM"}

\* The goroutine started by New, as a holder of s.mu.
Handler == NumThreads + 1

\* Variant: the goroutine cancels first and records the signal afterwards.
HandlerStepsCancelFirst == <<"cancel", "lock", "set", "stop">>

\* The statements of the goroutine after sig := <-sigChan, lines 54-58, in
\* their order.
HandlerSteps == <<"lock", "set", "cancel", "stop">>

\* signalContext.Err, lines 37-40, under s.mu.
ErrValue == IF sg.sigErr # "nil" THEN sg.sigErr ELSE sg.err

\* The inner context is cancelled with error e by who: the first
\* cancellation closes Done() and sets the error, later ones do nothing.
Cancelled(c, e, who) ==
  IF c.done THEN c ELSE [c EXCEPT !.done = TRUE, !.err = e, !.cause = who]

\* The process receives signal s while the channel is registered: the
\* runtime sends it to the channel without blocking, so it is dropped when
\* the buffer of 1 is full.
Signal(s) ==
  /\ sg.notify /\ Len(sg.sigChan) < 1
  /\ sg' = [sg EXCEPT !.sigChan = Append(@, s)]
  /\ UNCHANGED <<se, sigOutside>>

\* sig := <-sigChan, line 52
HandlerRecv ==
  /\ sg.hpc = 0 /\ sg.sigChan # <<>>
  /\ sg' = [sg EXCEPT !.sig = Head(sg.sigChan), !.sigChan = Tail(@), !.hpc = 1]
  /\ UNCHANGED <<se, sigOutside>>

\* The next statement of the goroutine: sigCtx.mu.Lock(); the store to
\* sigErr with sigCtx.mu.Unlock(); cancel(); signal.Stop(sigChan).
HandlerStep ==
  /\ sg.hpc \in 1..Len(HandlerSteps)
  /\ LET st == HandlerSteps[sg.hpc]
         c  == [sg EXCEPT !.hpc = @ + 1]
     IN  \/ /\ st = "lock" /\ sg.mu = 0
            /\ sg' = [c EXCEPT !.mu = Handler]
         \/ /\ st = "set"
            /\ sg' = [c EXCEPT !.sigErr = sg.sig, !.mu = 0]
         \/ /\ st = "cancel"
            /\ sg' = Cancelled(c, "canceled", "signal")
         \/ /\ st = "stop"
            /\ sg' = [c EXCEPT !.notify = FALSE]
  /\ UNCHANGED <<se, sigOutside>>

\* The caller of New calls the cancel function it was given.
Cancel ==
  /\ ~sg.done
  /\ sg' = Cancelled(sg, "canceled", "cancel")
  /\ UNCHANGED <<se, sigOutside>>

\* The parent context is cancelled or passes its deadline, which cancels
\* the context made by context.WithCancel(parent) with the same error.
ParentDone(e) ==
  /\ ~sg.done
  /\ sg' = Cancelled(sg, e, "parent")
  /\ UNCHANGED <<se, sigOutside>>

\* Err(), line 35: s.mu.Lock()
ErrLock(g) ==
  /\ se[g].pc = "idle" /\ sg.mu = 0
  /\ sg' = [sg EXCEPT !.mu = g]
  /\ se' = [se EXCEPT ![g].pc = "locked"]
  /\ UNCHANGED sigOutside

\* Err(), lines 36-40: the result, the deferred Unlock and the return.
ErrReturn(g) ==
  /\ se[g].pc = "locked"
  /\ sg' = [sg EXCEPT !.mu = 0, !.last = ErrValue]
  /\ se' = [se EXCEPT ![g] = [pc |-> "idle", got |-> ErrValue]]
  /\ UNCHANGED sigOutside

SigNext ==
  \/ \E s \in Signals : Signal(s)
  \/ HandlerRecv
  \/ HandlerStep
  \/ Cancel
  \/ \E e \in {"canceled", "deadline"} : ParentDone(e)
  \/ \E g \in Threads : ErrLock(g)
  \/ \E g \in Threads : ErrReturn(g)

SigSpec == Init /\ [][SigNext]_vars

\* The Go scheduler runs the handler goroutine and the callers of Err(), and
\* sync.Mutex hands the lock to a goroutine that keeps waiting for it.
SigLiveSpec ==
  /\ Init /\ [][SigNext]_vars
  /\ WF_vars(HandlerRecv) /\ SF_vars(HandlerStep)
  /\ \A g \in Threads : WF_vars(ErrReturn(g))

\* ============================================================ StreamRead
\* validateTableName, lines 68-73
validateTableName(table) ==
  IF table \notin ValidTables THEN "invalid table name" ELSE "nil"

\* A send on channel c of capacity cap: "ok" when the buffer has room,
\* "panic" on a closed channel, "block" otherwise (no receiver is taken to
\* be waiting: a buffered value is what the consumer finds later).
SendResult(c, cap) ==
  IF c.closed THEN "panic" ELSE IF Len(c.buf) < cap THEN "ok" ELSE "block"

\* Variant: the error channel is unbuffered.
ErrSentUnbuffered(c, e) ==
  [c EXCEPT !.errChan.buf = IF SendResult(c.errChan, 0) = "ok"
                            THEN Append(@, e) ELSE @,
            !.errSends = IF SendResult(c.errChan, 0) = "ok" THEN @ + 1 ELSE @,
            !.late = @ \/ c.errChan.closed,
            !.blocked = @ \/ SendResult(c.errChan, 0) = "block"]

\* errChan <- e on the channels c.  History: the sends are counted, a send
\* after the close and a send that finds no room are noted.
ErrSent(c, e) ==
  [c EXCEPT !.errChan.buf = IF SendResult(c.errChan, ErrCap) = "ok"
                            THEN Append(@, e) ELSE @,
            !.errSends = IF SendResult(c.errChan, ErrCap) = "ok" THEN @ + 1 ELSE @,
            !.late = @ \/ c.errChan.closed,
            !.blocked = @ \/ SendResult(c.errChan, ErrCap) = "block"]

\* close(dataChan).  History: the closes are counted.
DataClosed(c) ==
  [c EXCEPT !.dataChan.closed = TRUE, !.dataCloses = @ + 1]

\* close(errChan).  History: the closes are counted.
ErrClosed(c) ==
  [c EXCEPT !.errChan.closed = TRUE, !.errCloses = @ + 1]

\* The three early returns, lines 284-289, 318-323 and 325-330: send the
\* error, close both channels, return them.  The channels are not shared
\* yet, so nothing runs in between; a send that cannot proceed leaves the
\* call blocked in it.
EarlyReturn(e) ==
  LET c1 == ErrSent(sc, e)
  IN  IF sc.errChan.closed
      THEN /\ sr' = [sr EXCEPT !.panic = "send on closed channel"]
           /\ sc' = c1
      ELSE IF c1.blocked
      THEN /\ sr' = [sr EXCEPT !.pc = "blocked", !.err = e]
           /\ sc' = c1
      ELSE /\ sr' = [sr EXCEPT !.pc = "returned", !.err = e]
           /\ sc' = ErrClosed(DataClosed(c1))

\* StreamRead, lines 280-331 and 360: the part that runs in the caller.
\* session is what CreateReadSession gives: an error, a session without
\* streams, or a session with one.
StreamReadCall(table, session) ==
  /\ sr.pc = "new" /\ sr.panic = "none"
  /\ IF validateTableName(table) # "nil"
     THEN EarlyReturn(validateTableName(table))
     ELSE IF session = "error"
     THEN EarlyReturn("session error")
     ELSE IF session = "empty"
     THEN EarlyReturn("no streams in session")
     ELSE /\ sr' = [sr EXCEPT !.pc = "readrows"]
          /\ sc' = sc
  /\ UNCHANGED srOutside

\* The goroutine, lines 335-341: ReadRows gives a stream reader or an error.
ReadRows(ok) ==
  /\ sr.pc = "readrows" /\ sr.panic = "none"
  /\ sr' = IF ok THEN [sr EXCEPT !.pc = "select"]
           ELSE [sr EXCEPT !.pc = "senderr", !.err = "readrows error"]
  /\ UNCHANGED <<sc, srOutside>>

\* The select of lines 343-347: the Done case when the context is done,
\* else the default case.
Select ==
  /\ sr.pc = "select" /\ sr.panic = "none"
  /\ sr' = IF sr.ctx # "live"
           THEN [sr EXCEPT !.pc = "senderr", !.err = sr.ctx]
           ELSE [sr EXCEPT !.pc = "recv"]
  /\ UNCHANGED <<sc, srOutside>>

\* streamReader.Recv(), lines 348-355, returns rows, io.EOF or another
\* error (the stream's, or the context's when it ends during the call).
StreamRecv(out) ==
  /\ sr.pc = "recv" /\ sr.panic = "none"
  /\ \/ /\ out = "rows" /\ sr.rows < MaxRows
        /\ sr' = [sr EXCEPT !.pc = "senddata", !.rows = @ + 1]
     \/ /\ out = "EOF"
        /\ sr' = [sr EXCEPT !.pc = "return"]
     \/ /\ out = "error"
        /\ sr' = [sr EXCEPT !.pc = "senderr",
                            !.err = IF sr.ctx # "live" THEN sr.ctx ELSE "recv error"]
  /\ UNCHANGED <<sc, srOutside>>

\* dataChan <- rows, line 356: waits while the buffer is full.
SendData ==
  /\ sr.pc = "senddata" /\ sr.panic = "none"
  /\ SendResult(sc.dataChan, DataCap) # "block"
  /\ IF SendResult(sc.dataChan, DataCap) = "panic"
     THEN /\ sr' = [sr EXCEPT !.panic = "send on closed channel"]
          /\ sc' = [sc EXCEPT !.late = TRUE]
     ELSE /\ sr' = [sr EXCEPT !.pc = "select"]
          /\ sc' = [sc EXCEPT !.dataChan.buf = Append(@, sr.rows)]
  /\ UNCHANGED srOutside

\* errChan <- err, lines 339, 345 and 353, then return.
SendErr ==
  /\ sr.pc = "senderr" /\ sr.panic = "none"
  /\ sc' = ErrSent(sc, sr.err)
  /\ sr' = IF sc.errChan.closed
           THEN [sr EXCEPT !.panic = "send on closed channel"]
           ELSE IF sc'.errSends = sc.errSends
           THEN [sr EXCEPT !.pc = "blocked"]
           ELSE [sr EXCEPT !.pc = "return"]
  /\ UNCHANGED srOutside

\* return: the deferred calls run last in, first out: close(errChan),
\* line 334, then close(dataChan), line 333.
DeferErr ==
  /\ sr.pc = "return" /\ sr.panic = "none"
  /\ sc' = ErrClosed(sc)
  /\ sr' = IF sc.errChan.closed
           THEN [sr EXCEPT !.panic = "close of closed channel"]
           ELSE [sr EXCEPT !.pc = "defer"]
  /\ UNCHANGED srOutside

DeferData ==
  /\ sr.pc = "defer" /\ sr.panic = "none"
  /\ sc' = DataClosed(sc)
  /\ sr' = IF sc.dataChan.closed
           THEN [sr EXCEPT !.panic = "close of closed channel"]
           ELSE [sr EXCEPT !.pc = "done"]
  /\ UNCHANGED srOutside

\* The owner of ctx cancels it, or its deadline passes.
CtxDone(e) ==
  /\ sr.ctx = "live" /\ sr.panic = "none"
  /\ sr' = [sr EXCEPT !.ctx = e]
  /\ UNCHANGED <<sc, srOutside>>

\* The caller of StreamRead receives from the channels it was given.
RecvData ==
  /\ sr.pc # "new" /\ sr.panic = "none"
  /\ sc.dataChan.buf # <<>>
  /\ sc' = [sc EXCEPT !.dataChan.buf = Tail(@),
                      !.data = Append(@, Head(sc.dataChan.buf))]
  /\ UNCHANGED <<sr, srOutside>>

RecvErr ==
  /\ sr.pc # "new" /\ sr.panic = "none"
  /\ sc.errChan.buf # <<>>
  /\ sc' = [sc EXCEPT !.errChan.buf = Tail(@),
                      !.errs = Append(@, Head(sc.errChan.buf))]
  /\ UNCHANGED <<sr, srOutside>>

StreamNext ==
  \/ \E table \in Tables, session \in {"error", "empty", "stream"} :
        StreamReadCall(table, session)
  \/ \E ok \in BOOLEAN : ReadRows(ok)
  \/ Select
  \/ \E out \in {"rows", "EOF", "error"} : StreamRecv(out)
  \/ SendData
  \/ SendErr
  \/ DeferErr
  \/ DeferData
  \/ \E e \in {"context canceled", "context deadline exceeded"} : CtxDone(e)
  \/ RecvData
  \/ RecvErr

StreamSpec == Init /\ [][StreamNext]_vars

\* A step of the goroutine started at line 332.
Goroutine ==
  \/ \E ok \in BOOLEAN : ReadRows(ok)
  \/ Select
  \/ \E out \in {"rows", "EOF", "error"} : StreamRecv(out)
  \/ SendData
  \/ SendErr
  \/ DeferErr
  \/ DeferData

\* The goroutine has been started and has not ended.
Reading ==
  sr.pc \in {"readrows", "select", "recv", "senddata", "senderr", "return",
             "defer", "blocked"}

\* The Go scheduler runs the goroutine whenever it can take a step, and the
\* calls of the read client return; the consumer and the owner of the
\* context are free to do nothing.
StreamLiveSpec == Init /\ [][StreamNext]_vars /\ WF_vars(Goroutine)

TypeOK ==
  /\ mu \in 0..NumThreads
  /\ Len(cons) = Len(chans) /\ Len(hist) = Len(chans)
  /\ Range(subscribers) \subseteq Handles


\* ----------------------------------------------------------------- claims
\* Goroutine t has finished the body of method o and is about to unlock
\* and return.
Returning(t, o) == pc[t] = "unlock" /\ op[t] = o

\* C1 (Isolation): when every event published while h was registered came
\* before any receive on h, the events h's consumer has received followed by
\* those still queued are exactly the first min(n, c) of the n events, in
\* publish order; this stays so in every later state, so the other events
\* are never delivered late.  Checked for the capacities 0..WideCap and up
\* to WideCap + 1 events.
C1_Isolation ==
  \A h \in Handles :
    (~hist[h].mixed /\ ~Publishing)
      => Stream(h) = Prefix(hist[h].due, chans[h].cap)

\* C1 witness: more events than capacity were published on a queue of
\* capacity two or more, and its consumer has since received exactly the
\* first c of them, two at least, in publish order.
C1_Witness ==
  \E h \in Handles :
    /\ ~hist[h].mixed /\ ~Publishing
    /\ chans[h].cap >= 2
    /\ Len(hist[h].due) > chans[h].cap
    /\ cons[h].recvd = Prefix(hist[h].due, chans[h].cap)
    /\ Len(cons[h].recvd) >= 2
    /\ cons[h].recvd[1] < cons[h].recvd[2]
    /\ chans[h].buf = <<>>

\* C2 as stated: when a Publish has finished its fan-out, a subscription
\* holds the event if and only if it was registered and not full at the
\* instant the Publish took the lock (a queue with a receiver waiting on it
\* is counted as not full).
C2_Original ==
  \A t \in Threads :
    Returning(t, "Publish") =>
      \A h \in Handles :
        Has(h, arg[t]) <=>
          (h \in Range(rng[t]) /\ (h \notin snap.full \/ h \in snap.parked))

\* C2 as amended: a subscription registered and not full at the instant the
\* Publish took the lock holds the event; one that was full then holds it
\* only if its consumer was waiting or received before the send attempt;
\* a subscription outside the registry at that instant never holds it.
C2_PublishAtomic ==
  \A t \in Threads :
    Returning(t, "Publish") =>
      \A h \in Handles :
        /\ (h \in Range(rng[t]) /\ h \notin snap.full) => Has(h, arg[t])
        /\ Has(h, arg[t]) =>
             /\ h \in Range(rng[t])
             /\ (h \notin snap.full \/ h \in snap.parked \/ h \in snap.helped)

\* C2 witness: a Publish ends having delivered to a queue with room and
\* dropped on a full queue with no consumer at work.
C2_Witness ==
  \E t \in Threads :
    /\ Returning(t, "Publish")
    /\ \E h1, h2 \in Range(rng[t]) :
         /\ h1 \notin snap.full /\ Has(h1, arg[t])
         /\ h2 \in snap.full /\ h2 \notin snap.parked \cup snap.helped
         /\ ~Has(h2, arg[t])

\* C3 (Fan-out): a Publish that found no registered queue full has, when
\* its fan-out is done, made its event available on every registered queue.
C3_FanOut ==
  \A t \in Threads :
    (Returning(t, "Publish") /\ snap.full = {})
      => \A h \in Range(rng[t]) : Has(h, arg[t])

\* C3 witness: a Publish over at least two registered, non-full queues ends.
C3_Witness ==
  \E t \in Threads :
    /\ Returning(t, "Publish") /\ snap.full = {}
    /\ Len(rng[t]) >= 2
    /\ \A h \in Range(rng[t]) : Has(h, arg[t])

\* C4 as stated: once Unsubscribe(h) has returned for a registered h, h is
\* closed and a receive on h yields end of stream, whatever h held.
C4_Original ==
  \A h \in Handles :
    hist[h].unsub =>
      (chans[h].closed /\ RecvResult(chans[h]) = "eos")

\* C4 as amended: once Unsubscribe(h) has returned for a registered h, h is
\* closed, no receiver is left waiting on it and a receive never waits: it
\* yields end of stream as soon as the events queued on h are drained, at
\* once when none is queued.
C4_UnsubscribeCloses ==
  \A h \in Handles :
    hist[h].unsub =>
      /\ chans[h].closed
      /\ ~chans[h].recvq
      /\ RecvResult(chans[h]) # "park"
      /\ (chans[h].buf = <<>> => RecvResult(chans[h]) = "eos")

\* C4 witness: Unsubscribe has returned for a handle with an event queued,
\* and for a handle with none.
C4_Witness ==
  \E h1, h2 \in Handles :
    /\ hist[h1].unsub /\ chans[h1].buf # <<>>
    /\ hist[h2].unsub /\ chans[h2].buf = <<>>

\* C5: when Unsubscribe(h) of a registered h has run, the registry is the
\* registry it found with h deleted: one shorter, the others in their order.
C5_RemovesExactly ==
  \A t \in Threads :
    (Returning(t, "Unsubscribe") /\ arg[t] \in Range(rng[t])) =>
      /\ subscribers = SelectSeq(rng[t], LAMBDA x : x # arg[t])
      /\ Len(subscribers) = Len(rng[t]) - 1

\* C5 witness: the first of three registered handles has been removed.
C5_Witness ==
  \E t \in Threads :
    /\ Returning(t, "Unsubscribe")
    /\ Len(rng[t]) = 3 /\ arg[t] = rng[t][1]
    /\ Len(subscribers) = 2

\* C6: once Unsubscribe(h) has returned for a registered h, the events h has
\* carried (received or queued) never change, so no event of a Publish that
\* starts later is received on h.
C6_NoLaterEvent ==
  [][\A h \in Handles : hist[h].unsub => Stream(h)' = Stream(h)]_vars

\* C6 witness: a Publish that started after Unsubscribe(h) returned has
\* delivered its event to another subscription and not to h.
C6_Witness ==
  \E t \in Threads, h, h2 \in Handles :
    /\ Returning(t, "Publish")
    /\ hist[h].unsub /\ ~Has(h, arg[t])
    /\ h2 \in Range(rng[t]) /\ Has(h2, arg[t])

\* C7 (Close is total): when Close has run, every queue that was registered
\* is closed with no receiver left waiting, and the registry is empty.
C7_CloseTotal ==
  \A t \in Threads :
    Returning(t, "Close") =>
      /\ Subscribers = <<>>
      /\ \A h \in Range(rng[t]) :
           chans[h].closed /\ RecvResult(chans[h]) # "park"

\* C7 witness: Close has run on a registry of at least two subscriptions.
C7_Witness ==
  \E t \in Threads : Returning(t, "Close") /\ Len(rng[t]) >= 2

\* C8: the body of Unsubscribe, run on a handle that is not registered,
\* changes neither the registry nor any channel and goes straight to the
\* deferred Unlock: it reaches no close(ch) and raises no panic.
C8_UnknownNoop ==
  [][\A t \in Threads :
       ( /\ pc[t] = "body" /\ op[t] = "Unsubscribe"
         /\ arg[t] \notin Range(subscribers)
         /\ pc'[t] # "body" )
       => /\ subscribers' = subscribers
          /\ chans' = chans
          /\ panicked' = "none"
          /\ pc'[t] = "unlock"]_vars

\* C8 witness: Unsubscribe has run a second time on the same handle.
C8_Witness ==
  \E t \in Threads :
    /\ Returning(t, "Unsubscribe")
    /\ arg[t] \in Handles /\ arg[t] \notin Range(rng[t])
    /\ hist[arg[t]].unsub

\* C9: the bus never closes a queue that is already closed (the runtime
\* would panic with "close of closed channel").
C9_CloseOnce == panicked # "close of closed channel"

\* C9 witness: Unsubscribe has run on a handle that Close had closed.
C9_Witness ==
  \E t \in Threads :
    /\ Returning(t, "Unsubscribe")
    /\ arg[t] \in Handles /\ arg[t] \notin Range(rng[t])
    /\ chans[arg[t]].closed /\ ~hist[arg[t]].unsub

\* C10: Publish never sends on a closed queue: while a Publish fans out,
\* every queue it has yet to try is open, and the runtime never panics with
\* "send on closed channel".
C10_NoSendOnClosed ==
  /\ panicked # "send on closed channel"
  /\ \A t \in Threads :
       (pc[t] = "body" /\ op[t] = "Publish") =>
         \A i \in idx[t]..Len(rng[t]) : ~chans[rng[t][i]].closed

\* C10 witness: a Publish is fanning out after a queue was unsubscribed and
\* closed, with a queue still to try.
C10_Witness ==
  \E t \in Threads, h \in Handles :
    /\ pc[t] = "body" /\ op[t] = "Publish"
    /\ idx[t] <= Len(rng[t])
    /\ hist[h].unsub /\ chans[h].closed

\* C11 (Publish never blocks): under fair scheduling of the callers, and with
\* no assumption that any consumer ever receives, every goroutine that has
\* called a method of the bus -- blocked in Lock or holding the mutex --
\* eventually returns; so no call waits on a consumer and callers never
\* deadlock.
C11_PublishReturns ==
  \A t \in Threads : (pc[t] # "idle") ~> (pc[t] = "idle")

\* C11 witness: a Publish is returning after dropping its event on a full
\* queue that has no receiver, while another caller waits for the mutex.
C11_Witness ==
  \E t \in Threads :
    /\ Returning(t, "Publish")
    /\ \E h \in Range(rng[t]) :
         Full(chans[h]) /\ ~chans[h].recvq /\ ~Has(h, arg[t])
    /\ \E u \in Threads : pc[u] = "wait"

\* C12 (registry retention): the handle a Subscribe is about to return is in
\* the registry, and a handle in the registry leaves it only by a step of
\* an Unsubscribe of that very handle or of a Close; steps of Publish, of
\* Subscribe, of Unsubscribe of other handles and of consumers never remove
\* it.
C12_Retention ==
  /\ [](\A t \in Threads :
          Returning(t, "Subscribe") => Len(chans) \in Range(subscribers))
  /\ [][\A h \in Range(subscribers) :
          \/ h \in Range(subscribers')
          \/ \E t \in Threads :
               /\ pc[t] = "body"
               /\ (op[t] = "Unsubscribe" /\ arg[t] = h) \/ op[t] = "Close"]_vars

\* C12 witness: an Unsubscribe of a registered handle is returning, and
\* another handle, which has been published to, is still registered.
C12_Witness ==
  \E t \in Threads :
    /\ Returning(t, "Unsubscribe")
    /\ arg[t] \in Range(rng[t])
    /\ \E h \in Range(subscribers) : h # arg[t] /\ Stream(h) # <<>>

\* C13 (no duplicates): no handle occupies two positions of the registry.
C13_NoDuplicates ==
  \A i, j \in 1..Len(subscribers) :
    subscribers[i] = subscribers[j] => i = j

\* C13 witness: at least two handles are registered after an Unsubscribe
\* removed one from before them.
C13_Witness ==
  /\ Len(subscribers) >= 2
  /\ \E h \in Handles : hist[h].unsub /\ h < subscribers[1]

\* C14 (Subscribe): the body of Subscribe(c) is always able to run, and its
\* step creates a handle that did not exist before, whose queue is open,
\* empty and of capacity exactly c, and appends it at the end of the
\* registry: the registry grows by one, and the handles registered before,
\* their order and every existing queue are unchanged.
C14_Subscribe ==
  /\ [](\A t \in Threads :
          (Running /\ pc[t] = "body" /\ op[t] = "Subscribe")
            => ENABLED SubscribeBody(t))
  /\ [][\A t \in Threads :
          (pc[t] = "body" /\ op[t] = "Subscribe" /\ pc'[t] = "unlock")
            => LET new == Len(chans')
               IN  /\ new \notin Handles
                   /\ chans'[new].cap = arg[t]
                   /\ chans'[new].buf = <<>>
                   /\ ~chans'[new].closed
                   /\ cons'[new].recvd = <<>>
                   /\ subscribers' = Append(subscribers, new)
                   /\ Len(subscribers') = Len(subscribers) + 1
                   /\ \A h \in Handles :
                        chans'[h] = chans[h] /\ cons'[h] = cons[h]]_vars

\* C14 witness: a Subscribe(1) is returning on a bus that already had a
\* subscription with a queued event.
C14_Witness ==
  \E t \in Threads :
    /\ Returning(t, "Subscribe") /\ arg[t] = 1
    /\ subscribers = Append(rng[t], Len(chans))
    /\ \E h \in Range(rng[t]) : chans[h].buf # <<>>

\* A Close that has returned closed the queue of h: the queue is closed, no
\* Unsubscribe of h removed it, and no Unsubscribe of h or Close is under
\* way.
ClosedByClose(h) ==
  /\ chans[h].closed /\ ~hist[h].unsub
  /\ \A t \in Threads : ~(op[t] = "Unsubscribe" /\ arg[t] = h) /\ op[t] # "Close"

\* C15 as stated (Closed is terminal): once a Close has run, the registry is
\* never non-empty again.
C15_Original ==
  (\E h \in Handles : ClosedByClose(h)) => subscribers = <<>>

\* C15 (lifecycle, amended): a subscription that a Close has closed stays
\* closed, is never in the registry again and gets no further event, whatever
\* is called later; the bus itself remains usable by later calls.
C15_ClosedSubscriptionsTerminal ==
  [][\A h \in Handles :
       ClosedByClose(h)
         => /\ chans'[h].closed
            /\ h \notin Range(subscribers')
            /\ cons'[h].recvd \o chans'[h].buf = Stream(h)]_vars

\* C15 witness: after a Close closed one subscription, a later subscription
\* is registered and has been delivered an event.
C15_Witness ==
  \E h1, h2 \in Handles :
    /\ h1 < h2 /\ ClosedByClose(h1)
    /\ h2 \in Range(subscribers) /\ Stream(h2) # <<>>

\* C16 (Subscribe after Close): when every earlier subscription of the bus
\* was closed by Close, the Subscribe(c) that follows returns an open queue
\* of capacity c, and the registry holds exactly that one subscription.
C16_SubscribeAfterClose ==
  \A t \in Threads :
    LET new == Len(chans)
    IN  ( /\ Returning(t, "Subscribe")
          /\ new > 1
          /\ \A h \in 1..(new - 1) : chans[h].closed /\ ~hist[h].unsub )
          => /\ subscribers = <<new>>
             /\ ~chans[new].closed
             /\ chans[new].cap = arg[t]
             /\ chans[new].buf = <<>>

\* C16 witness: Subscribe(1) is returning on a bus whose two earlier
\* subscriptions were closed by Close.
C16_Witness ==
  \E t \in Threads :
    /\ Returning(t, "Subscribe") /\ arg[t] = 1
    /\ Len(chans) = 3
    /\ \A h \in 1..2 : chans[h].closed /\ ~hist[h].unsub

\* A Close by goroutine t is running or returning after an earlier Close
\* closed at least one subscription: some queue is closed that neither an
\* Unsubscribe nor this Close (which has closed rng[t][1..idx[t]-1]) closed.
SecondClose(t) ==
  /\ op[t] = "Close"
  /\ \E h \in Handles :
       /\ chans[h].closed /\ ~hist[h].unsub
       /\ \A i \in 1..(idx[t] - 1) : rng[t][i] # h

\* C17 as stated (Close twice crashes): a second Close, after a first Close
\* that had a subscription to close, never returns normally.
C17_Original ==
  \A t \in Threads : ~(SecondClose(t) /\ pc[t] = "unlock")

\* C17 (Close twice, amended): a second Close meets no closed queue, so it
\* does not crash: whatever it still has to close is open.
C17_SecondCloseSafe ==
  \A t \in Threads :
    SecondClose(t)
      => /\ panicked = "none"
         /\ pc[t] = "body"
              => \A i \in idx[t]..Len(rng[t]) : ~chans[rng[t][i]].closed

\* C17 witness: a second Close is returning normally, with nothing left to
\* close, after a first Close closed a subscription.
C17_Witness ==
  \E t \in Threads :
    /\ SecondClose(t) /\ pc[t] = "unlock" /\ rng[t] = <<>>
    /\ panicked = "none"

\* C18 (per-subscription FIFO): events are numbered in the order in which
\* their Publish calls acquired the lock; on every subscription the events
\* received so far followed by those still queued are in strictly increasing
\* order, i.e. a subsequence of that order without reordering or repetition.
C18_Fifo ==
  \A h \in Handles :
    \A i, j \in 1..Len(Stream(h)) :
      i < j => Stream(h)[i] < Stream(h)[j]

\* C18 witness: after two Publish calls a subscription has received the
\* first event and holds the second.
C18_Witness ==
  \E h \in Handles :
    /\ Len(cons[h].recvd) >= 1 /\ chans[h].buf # <<>>
    /\ nextEvent > 2

\* Goroutine t's Publish makes its send attempt on handle h in this step.
SendAttempt(t, h) ==
  /\ pc[t] = "body" /\ op[t] = "Publish"
  /\ idx[t] <= Len(rng[t]) /\ rng[t][idx[t]] = h
  /\ idx'[t] = idx[t] + 1

\* C19 (capacity 0): a queue of capacity 0 never buffers an event.  A send
\* attempt of Publish(e) on it hands e to its consumer if and only if the
\* consumer is blocked in a receive at that moment; otherwise e is dropped,
\* the attempt completes without crash, and since no other step adds an
\* event to what the consumer has received, e is never received later.
C19_ZeroCapacity ==
  [][\A h \in Handles :
       chans[h].cap = 0
         => /\ chans'[h].buf = <<>>
            /\ \A t \in Threads :
                 SendAttempt(t, h)
                   => /\ cons'[h].recvd =
                           IF chans[h].recvq
                           THEN Append(cons[h].recvd, arg[t])
                           ELSE cons[h].recvd
                      /\ panicked' = "none"
            /\ (\A t \in Threads : ~SendAttempt(t, h))
                 => cons'[h].recvd = cons[h].recvd]_vars

\* C19 witness: a Publish is returning after its event was handed to the
\* waiting consumer of one capacity-0 subscription and dropped on another
\* capacity-0 subscription whose consumer was not waiting.
C19_Witness ==
  \E t \in Threads :
    /\ Returning(t, "Publish")
    /\ \E h1, h2 \in Range(rng[t]) :
         /\ chans[h1].cap = 0 /\ chans[h2].cap = 0
         /\ Has(h1, arg[t]) /\ ~Has(h2, arg[t])

\* Unsubscribe(h) has returned after removing h, or a Close that found h
\* registered is returning.
Terminated(h) ==
  \/ hist[h].unsub
  \/ \E t \in Threads : Returning(t, "Close") /\ h \in Range(rng[t])

\* C20 (stream termination): after Unsubscribe(h) or Close(), a consumer of
\* h that keeps receiving eventually finds the queue closed and drained, so
\* that its receive reports closure and its loop ends; and from the moment
\* the queue is closed it stays closed and the consumer gets nothing but the
\* events queued at that moment, which are never more than the capacity.
C20_StreamTerminates ==
  /\ \A h \in 1..MaxCalls :
       (h \in Handles /\ Terminated(h))
         ~> (h \in Handles /\ RecvResult(chans[h]) = "eos")
  /\ [][\A h \in Handles :
          chans[h].closed
            => /\ chans'[h].closed
               /\ cons'[h].recvd \o chans'[h].buf = Stream(h)
               /\ Len(chans[h].buf) <= chans[h].cap]_vars

\* C20 witness: h was unsubscribed; its consumer has received the events
\* published to it before, and its next receive reports closure.
C20_Witness ==
  \E h \in Handles :
    /\ hist[h].unsub /\ ~hist[h].mixed
    /\ cons[h].recvd # <<>>
    /\ RecvResult(chans[h]) = "eos"

\* C21 (scenario): in the walk-through, once the three Publish calls have
\* returned, h1 and h2 each carry exactly events 1 and 2 ("a", "b"; "c" was
\* dropped); once Unsubscribe(h1) has returned, h1 is closed with nothing
\* but those two events to receive and, until Close starts, Subscribers()
\* has length 1; once Close has returned, h2 is closed likewise and
\* Subscribers() is empty.
C21_Scenario ==
  /\ (nextEvent = 4 /\ ~Publishing)
       => Stream(1) = <<1, 2>> /\ Stream(2) = <<1, 2>>
  /\ (Len(chans) = 2 /\ hist[1].unsub)
       => /\ chans[1].closed /\ Stream(1) = <<1, 2>>
          /\ (\A t \in Threads : op[t] # "Close") /\ ~chans[2].closed
               => Len(Subscribers) = 1
  /\ (Len(chans) = 2 /\ chans[2].closed /\ AllIdle)
       => /\ Stream(2) = <<1, 2>>
          /\ Subscribers = <<>>

\* C21 witness: the walk-through is over; both consumers have received "a"
\* and "b" and find their queue closed, and the registry is empty.
C21_Witness ==
  /\ Len(chans) = 2 /\ AllIdle /\ Subscribers = <<>>
  /\ \A h \in {1, 2} :
       /\ chans[h].cap = 2
       /\ cons[h].recvd = <<1, 2>>
       /\ RecvResult(chans[h]) = "eos"

\* C22 as stated (single generation): when every goroutine has called
\* GetToken on a manager that had no token, no generation failed and all
\* the calls have returned, every call has a non-empty token and exactly
\* one token was generated in total.
C22_Original ==
  (\A g \in Threads :
      /\ tg[g].pc = "done" /\ tg[g].op = "GetToken"
      /\ tg[g].cold /\ ~tg[g].err)
    => /\ \A g \in Threads : tg[g].ret # 0
       /\ tm.count = 1

\* C23 as stated (token caching): the check of a GetToken call ends the
\* call with the cached token, and nothing generated, exactly when a token
\* is cached and more than 5 minutes remain before its expiry; otherwise the
\* call generates exactly one new token, caches it with 55 minutes to its
\* expiry, and returns it.
C23_Original ==
  [][\A g \in Threads :
       /\ (tg[g].pc = "rlocked" /\ tg'[g].pc # "rlocked")
            => IF tm.token # 0 /\ tm.until > 5
               THEN /\ tg'[g].pc = "done" /\ tg'[g].ret = tm.token
                    /\ tg'[g].gens = 0
                    /\ tm'.token = tm.token /\ tm'.count = tm.count
                    /\ tm'.until = tm.until
               ELSE tg'[g].pc = "refresh"
       /\ (tg[g].op = "GetToken" /\ tg[g].pc = "refresh")
            => tg'[g].pc \in {"refresh", "locked"}
       /\ (tg[g].op = "GetToken" /\ tg[g].pc = "locked" /\ tg'[g].pc # "locked")
            => /\ tg'[g].gens = 1
               /\ tm'.count = tm.count + 1
               /\ tm'.token > tm.count
               /\ tm'.until = 55
               /\ tg'[g].ret = tm'.token
       /\ (tg[g].op = "GetToken" /\ tg[g].pc = "unlock")
            => tg'[g].ret = tg[g].ret /\ tg'[g].gens = tg[g].gens]_vars

\* C23 as amended (token caching): the check of a GetToken call ends the
\* call with the cached token, and nothing generated, exactly when a token
\* is cached and more than 5 minutes remain before its expiry; otherwise the
\* call goes on to one attempt to generate.  An attempt that succeeds makes
\* one token never issued before, caches it with 55 minutes to its expiry,
\* and returns it; an attempt that fails makes and caches nothing, and the
\* call returns the empty token with the error.
C23_Caching ==
  [][\A g \in Threads :
       /\ (tg[g].pc = "rlocked" /\ tg'[g].pc # "rlocked")
            => IF tm.token # 0 /\ tm.until > 5
               THEN /\ tg'[g].pc = "done" /\ tg'[g].ret = tm.token
                    /\ tg'[g].gens = 0
                    /\ tm'.token = tm.token /\ tm'.count = tm.count
                    /\ tm'.until = tm.until
               ELSE tg'[g].pc = "refresh"
       /\ (tg[g].op = "GetToken" /\ tg[g].pc = "refresh")
            => tg'[g].pc \in {"refresh", "locked"}
       /\ (tg[g].op = "GetToken" /\ tg[g].pc = "locked" /\ tg'[g].pc # "locked")
            => IF tg'[g].err
               THEN /\ tg'[g].gens = 0 /\ tg'[g].ret = 0
                    /\ tm'.token = tm.token /\ tm'.count = tm.count
                    /\ tm'.until = tm.until
               ELSE /\ tg'[g].gens = 1
                    /\ tm'.count = tm.count + 1
                    /\ tm'.token > tm.count
                    /\ tm'.until = 55
                    /\ tg'[g].ret = tm'.token
       /\ (tg[g].op = "GetToken" /\ tg[g].pc = "unlock")
            => /\ tg'[g].ret = tg[g].ret /\ tg'[g].gens = tg[g].gens
               /\ tg'[g].err = tg[g].err]_vars

\* C23 witness: a GetToken call that began with a token cached has found it
\* stale, generated the second token and returned it; the second token is
\* cached with 55 minutes to its expiry.  Another GetToken call that missed
\* has returned the empty token with the error of its failed generation.
C23_Witness ==
  \E g, h \in Threads :
    /\ tg[g].op = "GetToken" /\ tg[g].pc = "done" /\ ~tg[g].cold
    /\ tg[g].gens = 1 /\ tg[g].ret = 2
    /\ tm.token = 2 /\ tm.until = 55
    /\ tg[h].op = "GetToken" /\ tg[h].pc = "done"
    /\ tg[h].err /\ tg[h].ret = 0 /\ tg[h].gens = 0

\* C24 (signal context): a signal delivered to the channel leads to the
\* cancellation of the context; and whenever Done() was closed by the
\* signal handler, Err() yields the *SignalError of the signal the handler
\* received, and so does every Err() call that returns then: the signal
\* error is stored before Done() closes, so context.Canceled is never read
\* for a cancellation caused by a signal.
C24_SignalCancels ==
  /\ (sg.sigChan # <<>>) ~> sg.done
  /\ [](sg.cause = "signal" => sg.sig \in Signals /\ ErrValue = sg.sig)
  /\ [][\A g \in Threads :
          (sg.cause = "signal" /\ se[g].pc = "locked" /\ se'[g].pc = "idle")
            => se'[g].got = sg.sig]_vars

\* C24 witness: SIGTERM closed Done() and an Err() call made afterwards has
\* returned the SIGTERM signal error.
C24_Witness ==
  /\ sg.done /\ sg.cause = "signal" /\ sg.sig = "SIGTERM"
  /\ \E g \in Threads : se[g].pc = "idle" /\ se[g].got = "SIGTERM"

\* C29 as stated (error stability): once an Err() call has returned a
\* non-nil error, every later Err() call returns that same error.
C29_Original ==
  [][sg.last # "nil" => sg'.last = sg.last]_vars

\* C27 (Unsubscribe frame): the steps of Unsubscribe(h), the one that
\* removes h and the one that closes it, leave every other subscription as
\* it is: its queue (open or not, capacity, queued events and their order,
\* waiting receiver) and what its consumer has received are unchanged, and
\* the registry after the removal is the registry before without h, in the
\* same order, so that every other registered subscription is still
\* registered and open for later Publish calls.
C27_UnsubscribeFrame ==
  [][\A t \in Threads :
       /\ (pc[t] = "body" /\ op[t] = "Unsubscribe" /\ pc'[t] # "body")
            => /\ chans' = chans /\ cons' = cons
               /\ subscribers' = SelectSeq(subscribers, LAMBDA x : x # arg[t])
               /\ \A h \in Range(subscribers) \ {arg[t]} :
                    h \in Range(subscribers') /\ ~chans'[h].closed
       /\ (pc[t] = "close" /\ op[t] = "Unsubscribe" /\ pc'[t] # "close")
            => /\ \A h \in Handles \ {arg[t]} :
                    chans'[h] = chans[h] /\ cons'[h] = cons[h]
               /\ chans'[arg[t]].closed
               /\ subscribers' = subscribers
               /\ \A h \in Range(subscribers) :
                    h # arg[t] /\ ~chans'[h].closed]_vars

\* C27 witness: h1 was unsubscribed while h2 was registered; a Publish made
\* afterwards has delivered its event to h2 and not to h1.
C27_Witness ==
  \E h1, h2 \in Handles :
    /\ h1 < h2 /\ hist[h1].unsub
    /\ h2 \in Range(subscribers) /\ ~chans[h2].closed
    /\ Stream(h2) # <<>> /\ Stream(h1) = <<>>
    /\ AllIdle

\* C28 (registry/open correspondence): whenever the bus lock is free, a
\* queue made by Subscribe is open exactly when its handle is in the
\* registry.
C28_OpenIffRegistered ==
  MuFree =>
    \A h \in Handles : ~chans[h].closed <=> h \in Range(subscribers)

\* C28 witness: with the lock free, one subscription was closed by Close,
\* one by Unsubscribe, and a third is registered and open.
C28_Witness ==
  /\ MuFree /\ AllIdle
  /\ \E h1, h2, h3 \in Handles :
       /\ ClosedByClose(h1)
       /\ hist[h2].unsub /\ chans[h2].closed
       /\ h3 \in Range(subscribers) /\ ~chans[h3].closed


\* ------------------------------------------------- the list of Subscribers()
\* A Subscribers() call whose two loads no assignment of eb.subscribers
\* came between has returned its slice.
CleanView == Returned /\ ~view.mixed

\* C25 as stated: a list returned by Subscribers() is a live view of the
\* registry; after any later Subscribe, Unsubscribe or Close it shows the
\* registry's current contents, with the same handles, order and length.
C25_Original == (CleanView /\ MuFree) => ViewList = Subscribers

\* C25, amended: a list returned by Subscribers() is not a copy, and not a
\* live view either.  It keeps the length the registry had at the call, and
\* every position of it holds a handle or, while a Subscribe is between its
\* two stores, nil.  Until a Subscribe that needs a larger array, or a
\* Close, gives the registry another array, the list shows the array of the
\* registry: whenever no goroutine is inside Subscribe, Unsubscribe or
\* Close, it holds the registry's current handles in the positions both
\* have; its positions behind the registry's current length keep what they
\* held (an Unsubscribe copies the later handles down inside the list and
\* leaves the last one standing twice).  Once the registry has another
\* array the list never changes again.
C25_SharedArray ==
  /\ [](CleanView =>
          /\ Len(ViewList) = Len(view.at)
          /\ \A i \in 1..view.len : ViewList[i] \in Handles \cup {NilChan}
          /\ ~Mutating =>
               /\ \A i \in 1..view.len : ViewList[i] \in Handles
               /\ ~view.moved =>
                    \A i \in 1..Min(view.len, Len(subscribers)) :
                       ViewList[i] = subscribers[i])
  /\ [][CleanView =>
          /\ \A i \in 1..view.len :
               i > Len(subscribers') => ViewList'[i] = ViewList[i]
          /\ view'.moved => ViewList' = ViewList]_vars

\* A list taken from the registry <<h1, h2>> after Unsubscribe(h1) has
\* returned: the registry is <<h2>>, the list, still of length 2 and on the
\* registry's array, reads <<h2, h2>>, neither what was returned nor the
\* registry.
C25_Witness ==
  /\ CleanView /\ ~view.racy /\ ~view.moved /\ AllIdle
  /\ Len(view.at) = 2 /\ Len(subscribers) = 1
  /\ ViewList = <<subscribers[1], subscribers[1]>>
  /\ ViewList # view.at

\* C26: Subscribers() takes no lock: while a goroutine is inside the
\* critical section of Subscribe, Unsubscribe or Close, a caller of
\* Subscribers() that has not returned yet can load the next word of
\* eb.subscribers.
C26_ReadsWithoutLock ==
  (Mutating /\ view.on /\ ~Returned /\ Running)
     => ENABLED (\E w \in {"ptr", "len"} : SubscribersLoad(w))

\* Subscribers() has loaded a word during a critical section that assigned
\* eb.subscribers between its two loads, and the slice it returned, with
\* the old pointer and the new length, reaches outside its array.
C26_Witness ==
  /\ Returned /\ view.racy /\ view.mixed
  /\ Garbage \in Range(ViewList)


\* C30: StreamRead channel protocol.  On every path at most one error is
\* sent on the error channel and that send finds room, so it never blocks;
\* neither channel is closed twice, and when StreamRead has returned early
\* or its goroutine has ended each has been closed once; no send follows a
\* close and no channel operation panics.
C30_ChannelProtocol ==
  /\ sc.errSends <= 1
  /\ ~sc.blocked /\ sr.pc # "blocked"
  /\ sr.pc = "senderr" => SendResult(sc.errChan, ErrCap) = "ok"
  /\ sc.dataCloses <= 1 /\ sc.errCloses <= 1
  /\ sr.pc \in {"returned", "done"} => sc.dataCloses = 1 /\ sc.errCloses = 1
  /\ sc.errSends = Len(sc.errs) + Len(sc.errChan.buf)
  /\ ~sc.late
  /\ sr.panic = "none"

\* The goroutine has ended on the cancellation path after delivering rows:
\* the consumer has received a row and the context's error, one error was
\* sent, and both channels are closed.
C30_Witness ==
  /\ sr.pc = "done" /\ sr.rows > 0
  /\ sc.data # <<>> /\ sc.errs = <<"context canceled">>
  /\ sc.errSends = 1
  /\ sc.dataChan.closed /\ sc.errChan.closed


\* C32 (refresh failure): the step in which the generation of a Refresh
\* fails leaves the cached token, its expiry and the generation count as
\* they are and gives the call the empty token with the error; no later step
\* of that call (the unlock, the return) changes the cache or the result,
\* whether Refresh was called directly or by GetToken.  So the check of a
\* GetToken call that runs when a Refresh has failed, finding a token with
\* more than 5 minutes left, returns that token.
C32_FailureKeepsCache ==
  [][\A g \in Threads :
       /\ (tg[g].pc = "locked" /\ tg'[g].pc # "locked" /\ tg'[g].err)
            => /\ tg'[g].ret = 0 /\ tg'[g].gens = 0
               /\ tm'.token = tm.token /\ tm'.until = tm.until
               /\ tm'.count = tm.count
       /\ (tg[g].err /\ tg'[g] # tg[g])
            => /\ tm'.token = tm.token /\ tm'.until = tm.until
               /\ tg'[g].pc = "done" => tg'[g].ret = 0 /\ tg'[g].err
       /\ (tg[g].pc = "rlocked" /\ tg'[g].pc # "rlocked"
             /\ (\E h \in Threads : Failed(h))
             /\ tm.token # 0 /\ tm.until > 5)
            => /\ tg'[g].pc = "done" /\ tg'[g].ret = tm.token
               /\ tm'.token = tm.token /\ tm'.until = tm.until]_vars

\* C32 witness: a Refresh begun with token 1 cached has failed, and token 1
\* has more than 5 minutes left: its caller holds the empty token and the error, token 1
\* is still cached and the only token generated, and a GetToken call of
\* another goroutine holds the read lock, about to find token 1.
C32_Witness ==
  \E g, h \in Threads :
    /\ Failed(g) /\ ~tg[g].cold /\ tg[g].ret = 0 /\ tg[g].gens = 0
    /\ tg[h].op = "GetToken" /\ tg[h].pc = "rlocked"
    /\ tm.token = 1 /\ tm.count = 1 /\ tm.until > 5


\* C31 as stated (cancellation liveness): once the context passed to
\* StreamRead is done while the reader goroutine runs, the goroutine
\* eventually ends with both channels closed, whatever the consumer does.
C31_Original ==
  (Reading /\ sr.ctx # "live")
     ~> (sr.pc = "done" /\ sc.dataChan.closed /\ sc.errChan.closed)

=============================================================================
